---- MODULE Spec2Model ----
(***************************************************************************)
(* calgebra: the streaming interval algebra of src/calgebra/core.py.       *)
(*                                                                         *)
(* An interval is a record [start, end, src, k]: start..end is the         *)
(* inclusive integer range of interval.py, and (src, k) stands for the     *)
(* metadata fields of the Interval subclass: the k-th interval of leaf     *)
(* source src. dataclasses.replace(event, start=, end=) changes start and  *)
(* end and keeps (src, k).                                                 *)
(*                                                                         *)
(* streams[i] is the stream source i's fetch(start, end) returns. The      *)
(* combinators hand start and end to their sources and never read them     *)
(* (Complement excepted), so a combinator's output is a function of the    *)
(* source streams alone.                                                   *)
(***************************************************************************)
EXTENDS Integers, Sequences, FiniteSets, TLC

\* Time points are 0..MaxT.
MaxT == 3
\* The source streams of one fetch hold at most MaxIvls intervals between them.
MaxIvls == 3
\* The operators &, | and - build nodes of two operands:
\* Intersection(self, other), Union(self, other), Difference(self, other).
Operands == 2

VARIABLES
    streams,    \* streams[i]: the stream operand i's fetch(start, end) yields
    masks,      \* masks[i]: operand i's _is_mask
    query,      \* <<start, end>> of the fetch call (Complement reads them)
    pos,        \* pos[i]: items taken so far from operand i's stream
    current,    \* Intersection: current[i]; Difference: current_subtractor
    cursor,     \* Complement.generate: cursor
    out,        \* the items the returned iterable has yielded so far
    pc,         \* "built", "ready" (fetch has returned), "loop", "done", "raised"
    raised,     \* the exception the fetch call raised, if any
    srcFetches, \* calls of source.fetch made so far
    passes,     \* passes of the generator's main loop so far
    stages,     \* nested generators: stages[l] is the l-th Complement's generate()
    pattern,    \* the fields of a RecurringPattern; <<>> when there is none
    kind,       \* the class of the node fetched twice over; "" when there is none
    built,      \* the outcomes of the | and & expressions evaluated so far
    store,      \* a MemoryTimeline's fields; <<>> when there is none
    writes      \* the generators add and remove have returned, with their results

vars == <<streams, masks, query, pos, current, cursor, out, pc, raised,
          srcFetches, passes, stages, pattern,
          kind, built, store, writes>>

----------------------------------------------------------------------------
\* Intervals and ordered streams

Points == 0..MaxT

\* Interval.__post_init__: start <= end.
Spans == {se \in Points \X Points : se[1] <= se[2]}

Max(a, b) == IF a >= b THEN a ELSE b

Min(a, b) == IF a <= b THEN a ELSE b

\* key=lambda e: (e.start, e.end), compared as Python compares tuples.
KeyLeq(a, b) == a.start < b.start \/ (a.start = b.start /\ a.end <= b.end)

KeyLess(a, b) == a.start < b.start \/ (a.start = b.start /\ a.end < b.end)

IsSorted(s) == \A i \in 1..(Len(s) - 1) : KeyLeq(s[i], s[i + 1])

SpanLeq(a, b) == a[1] < b[1] \/ (a[1] = b[1] /\ a[2] <= b[2])

\* The streams of exactly n spans, non-decreasing in (start, end).
RECURSIVE SortedSpanSeqs(_)
SortedSpanSeqs(n) ==
    IF n = 0 THEN {<<>>}
    ELSE UNION {{Append(s, x) : x \in {y \in Spans : n = 1 \/ SpanLeq(s[n - 1], y)}}
                : s \in SortedSpanSeqs(n - 1)}

\* The k-th item of source i's stream, carrying its identity as metadata.
Ivl(se, i, j) == [start |-> se[1], end |-> se[2], src |-> i, k |-> j]

Tagged(t) == [i \in 1..Len(t) |-> [j \in 1..Len(t[i]) |-> Ivl(t[i][j], i, j)]]

\* streams is a tuple of lo..hi operand streams (hi <= 3), each non-decreasing
\* in (start, end), holding at most MaxIvls intervals between them.
StreamsWithin(lo, hi) ==
    \E n \in lo..hi, a \in 0..MaxIvls, b \in 0..MaxIvls, c \in 0..MaxIvls :
        /\ a + b + c <= MaxIvls
        /\ n < 1 => a = 0
        /\ n < 2 => b = 0
        /\ n < 3 => c = 0
        /\ \E s1 \in SortedSpanSeqs(a), s2 \in SortedSpanSeqs(b),
              s3 \in SortedSpanSeqs(c) :
              streams = Tagged(SubSeq(<<s1, s2, s3>>, 1, n))

\* Python's None, and an int n, as a slice bound.
None == <<>>

Some(n) == <<n>>

\* The state of a timeline over lo..hi operand streams that has been
\* constructed and not yet fetched, but for the operands' _is_mask and the
\* fields of the timeline itself.
Unfetched(lo, hi) ==
    /\ StreamsWithin(lo, hi)
    /\ query = <<None, None>>
    /\ pos = [i \in 1..Len(streams) |-> 0]
    /\ current = <<>>
    /\ cursor = None
    /\ out = <<>>
    /\ pc = "built"
    /\ raised = "none"
    /\ srcFetches = 0
    /\ passes = 0
    /\ stages = <<>>
    /\ kind = ""
    /\ built = <<>>
    /\ store = <<>>
    /\ writes = <<>>

\* A combinator node of lo..hi operands, constructed and not yet fetched.
Built(lo, hi) == Unfetched(lo, hi) /\ pattern = <<>>

\* dataclasses.replace(event, start=s, end=e)
Replace(event, s, e) == [event EXCEPT !.start = s, !.end = e]

Range(s) == {s[i] : i \in 1..Len(s)}

Covered(ivls) == {p \in Points : \E x \in ivls : x.start <= p /\ p <= x.end}

----------------------------------------------------------------------------
\* Intersection (core.py:192-279)

SetMax(S) == CHOOSE x \in S : \A y \in S : y <= x

SetMin(S) == CHOOSE x \in S : \A y \in S : x <= y

\* emit_indices, from mask_sources (1-based; Python's [0] is <<1>>).
RECURSIVE RichIndices(_, _)
RichIndices(m, i) ==
    IF i > Len(m) THEN <<>>
    ELSE (IF m[i] THEN <<>> ELSE <<i>>) \o RichIndices(m, i + 1)

\* emit_indices without the mask policy: every source emits.
EmitIndicesAll(m) == [i \in 1..Len(m) |-> i]

EmitIndices(m) ==
    IF \A i \in 1..Len(m) : m[i] THEN <<1>>
    ELSE IF \E i \in 1..Len(m) : m[i] THEN RichIndices(m, 1)
    ELSE [i \in 1..Len(m) |-> i]

\* overlap_start read off the first source alone.
OverlapStartOfFirst(cur) == cur[1].start

OverlapStart(cur) == SetMax({cur[i].start : i \in 1..Len(cur)})

OverlapEnd(cur) == SetMin({cur[i].end : i \in 1..Len(cur)})

\* The overlap test with the end taken as exclusive.
HasOverlapExclusive(os, oe) == os < oe

\* if overlap_start <= overlap_end
HasOverlap(os, oe) == os <= oe

\* for idx in emit_indices: yield replace(current[idx], start=..., end=...)
Emitted(cur, m) ==
    LET os == OverlapStart(cur)
        oe == OverlapEnd(cur)
        idx == EmitIndices(m)
    IN  IF HasOverlap(os, oe)
        THEN [j \in 1..Len(idx) |-> Replace(cur[idx[j]], os, oe)]
        ELSE <<>>

\* The advance loop looking at the first source alone.
AdvanceFirstOnly(idx, cutoff, st) ==
    IF st.current[1].end # cutoff THEN st
    ELSE IF st.pos[1] < Len(streams[1])
    THEN [st EXCEPT !.current[1] = streams[1][st.pos[1] + 1],
                    !.pos[1] = st.pos[1] + 1,
                    !.advanced = TRUE]
    ELSE [st EXCEPT !.stopped = TRUE]

\* The advance loop, from source idx on. st = [current, pos, advanced, stopped];
\* `event` is the item current held at idx when the loop began, since only
\* entries before idx have been replaced. next() on an iterator that has run
\* out raises StopIteration and the generator returns (stopped).
RECURSIVE Advance(_, _, _)
Advance(idx, cutoff, st) ==
    IF idx > Len(st.current) THEN st
    ELSE IF st.current[idx].end # cutoff THEN Advance(idx + 1, cutoff, st)
    ELSE IF st.pos[idx] < Len(streams[idx])
    THEN Advance(idx + 1, cutoff,
                 [st EXCEPT !.current[idx] = streams[idx][st.pos[idx] + 1],
                            !.pos[idx] = st.pos[idx] + 1,
                            !.advanced = TRUE])
    ELSE [st EXCEPT !.stopped = TRUE]

NumSources == Len(streams)

\* fetch(): no sources gives (); otherwise source.fetch is called on every
\* source and the generator is returned unstarted.
IntersectionFetch ==
    /\ pc = "built"
    /\ pc' = IF NumSources = 0 THEN "done" ELSE "ready"
    /\ srcFetches' = NumSources
    /\ UNCHANGED <<streams, masks, query, pos, current, cursor, out, raised, passes>>
    /\ UNCHANGED <<stages, pattern, kind, built, store, writes>>

\* current = [next(iterator) for iterator in iterators], left to right; the
\* first empty source ends the generator.
IntersectionStart ==
    /\ pc = "ready"
    /\ LET empties == {i \in 1..NumSources : Len(streams[i]) = 0}
           stop == IF empties = {} THEN NumSources + 1 ELSE SetMin(empties)
       IN  /\ pos' = [i \in 1..NumSources |-> IF i < stop THEN 1 ELSE 0]
           /\ IF empties = {}
              THEN /\ current' = [i \in 1..NumSources |-> streams[i][1]]
                   /\ pc' = "loop"
              ELSE /\ current' = current
                   /\ pc' = "done"
    /\ UNCHANGED <<streams, masks, query, cursor, out, raised, srcFetches, passes>>
    /\ UNCHANGED <<stages, pattern, kind, built, store, writes>>

\* One pass of `while True`.
IntersectionPass ==
    /\ pc = "loop"
    /\ LET cutoff == OverlapEnd(current)
           st == Advance(1, cutoff,
                         [current |-> current, pos |-> pos,
                          advanced |-> FALSE, stopped |-> FALSE])
       IN  /\ out' = out \o Emitted(current, masks)
           /\ current' = st.current
           /\ pos' = st.pos
           /\ pc' = IF st.stopped \/ ~st.advanced THEN "done" ELSE "loop"
    /\ passes' = passes + 1
    /\ UNCHANGED <<streams, masks, query, cursor, raised, srcFetches>>
    /\ UNCHANGED <<stages, pattern, kind, built, store, writes>>

\* Operands are mask (Complement, or built of masks alone) or rich.
AnyMasks == masks \in [1..Len(streams) -> BOOLEAN]

\* Timeline._is_mask: False unless a subclass overrides it.
NoMasks == masks = [i \in 1..Len(streams) |-> FALSE]

InitIntersection == Built(0, Operands) /\ AnyMasks

NextIntersection == IntersectionFetch \/ IntersectionStart \/ IntersectionPass

\* a & b, and Intersection() of fewer sources.
SpecIntersection == InitIntersection /\ [][NextIntersection]_vars

\* Intersection.__init__ flattens a nested Intersection: (a & b) & c is one
\* node of three sources.
InitFlattened == Built(1, Operands + 1) /\ NoMasks

SpecFlattened == InitFlattened /\ [][NextIntersection]_vars

----------------------------------------------------------------------------
\* Properties of Intersection

\* (start, end) of the overlap each emitting pass of the sweep yielded: the
\* output holds Len(EmitIndices(masks)) copies of every overlap.
OverlapsYielded ==
    LET c == Len(EmitIndices(masks))
    IN  [j \in 1..(Len(out) \div c) |->
            <<out[(j - 1) * c + 1].start, out[(j - 1) * c + 1].end>>]

\* Source 2 is one wide interval and every interval of source 1 lies under it.
UnderOneWide ==
    /\ NumSources = 2
    /\ Len(streams[2]) = 1
    /\ \A x \in Range(streams[1]) :
          streams[2][1].start <= x.start /\ x.end <= streams[2][1].end

\* C1: when one source holds several intervals under one wide interval of the
\* other source, the finished intersection has yielded one overlap for every
\* one of them, in order (X = [100,200],[150,160] and Y = [0,200] give
\* 100..200 and then 150..160).
C1_OverlapPerSourceInterval ==
    (pc = "done" /\ UnderOneWide) =>
        OverlapsYielded = [j \in 1..Len(streams[1]) |->
                              <<streams[1][j].start, streams[1][j].end>>]

\* C2: the stream Intersection yields is non-decreasing in (start, end), for
\* sources that are each non-decreasing in (start, end).
C2_IntersectionOrdered ==
    (\A i \in 1..NumSources : IsSorted(streams[i])) => IsSorted(out)

\* The points every source covers.
CommonPoints ==
    {p \in Points : \A i \in 1..NumSources : p \in Covered(Range(streams[i]))}

Inside(o, x) == x.start <= o.start /\ o.end <= x.end

RichSources == {i \in 1..NumSources : ~masks[i]}

\* C9: a pass with an overlap emits one copy when all sources are mask, and
\* otherwise one copy per rich source, in source order, none for a mask source;
\* every copy spans the overlap and carries the metadata of the current
\* interval of the source it was copied from.
C9_EmissionPolicy ==
    [][(pc = "loop" /\ OverlapStart(current) <= OverlapEnd(current)) =>
          LET new == SubSeq(out', Len(out) + 1, Len(out'))
          IN  /\ RichSources = {} => Len(new) = 1
              /\ RichSources # {} =>
                    /\ Len(new) = Cardinality(RichSources)
                    /\ {new[j].src : j \in 1..Len(new)} = RichSources
                    /\ \A j \in 1..(Len(new) - 1) : new[j].src < new[j + 1].src
              /\ \A j \in 1..Len(new) :
                    /\ new[j].start = OverlapStart(current)
                    /\ new[j].end = OverlapEnd(current)
                    /\ new[j].src \in 1..NumSources
                    /\ new[j].k = current[new[j].src].k]_vars

\* A mask source and a rich source have overlapped: only the rich one's copy
\* was yielded.
C9_Witness ==
    /\ pc = "done"
    /\ NumSources = 2
    /\ masks = <<TRUE, FALSE>>
    /\ Len(out) = 1
    /\ out[1].src = 2
    /\ out[1].start > streams[2][1].start

----------------------------------------------------------------------------
\* Union (core.py:175-189)

\* The streams of `ids` that still have an item, p[i] items being taken.
Heads(ids, p) == {i \in ids : p[i] < Len(streams[i])}

\* The streams chained one after another instead of merged.
MergePickFirst(ids, p) == SetMin(Heads(ids, p))

\* heapq.merge(*streams, key=(start, end)): the stream whose head has the
\* smallest key yields next; among equal keys, the stream given first.
MergePick(ids, p) ==
    CHOOSE i \in Heads(ids, p) :
        \A j \in Heads(ids, p) :
            \/ KeyLess(streams[i][p[i] + 1], streams[j][p[j] + 1])
            \/ (KeyLeq(streams[i][p[i] + 1], streams[j][p[j] + 1]) /\ i <= j)

\* fetch(): source.fetch is called on every source; heapq.merge returns a
\* generator that has not started.
UnionFetch ==
    /\ pc = "built"
    /\ pc' = "ready"
    /\ srcFetches' = NumSources
    /\ UNCHANGED <<streams, masks, query, pos, current, cursor, out, raised, passes>>
    /\ UNCHANGED <<stages, pattern, kind, built, store, writes>>

\* next(merged): the next item of the merge, or the end of the stream.
UnionNext ==
    /\ pc \in {"ready", "loop"}
    /\ IF Heads(1..NumSources, pos) = {}
       THEN /\ pc' = "done"
            /\ UNCHANGED <<pos, out>>
       ELSE LET i == MergePick(1..NumSources, pos)
            IN  /\ out' = Append(out, streams[i][pos[i] + 1])
                /\ pos' = [pos EXCEPT ![i] = pos[i] + 1]
                /\ pc' = "loop"
    /\ passes' = passes + 1
    /\ UNCHANGED <<streams, masks, query, current, cursor, raised, srcFetches>>
    /\ UNCHANGED <<stages, pattern, kind, built, store, writes>>

InitUnion == Built(1, Operands) /\ AnyMasks

NextUnion == UnionFetch \/ UnionNext

SpecUnion == InitUnion /\ [][NextUnion]_vars

\* The items of s that came from source i, in the order s has them.
RECURSIVE FromSource(_, _)
FromSource(s, i) ==
    IF s = <<>> THEN <<>>
    ELSE (IF Head(s).src = i THEN <<Head(s)>> ELSE <<>>) \o FromSource(Tail(s), i)

RECURSIVE SumLen(_, _)
SumLen(ss, i) == IF i > Len(ss) THEN 0 ELSE Len(ss[i]) + SumLen(ss, i + 1)

\* C5: Union is a k-way merge. Its output is non-decreasing in (start, end);
\* when it has finished, the items it took from each source are that source's
\* stream, whole and in order, so nothing is dropped, merged or repeated and
\* the length is the sum of the sources' lengths; a Union of one source yields
\* that source's stream.
C5_UnionIsMerge ==
    /\ IsSorted(out)
    /\ \A i \in 1..NumSources :
          FromSource(out, i) = SubSeq(streams[i], 1, pos[i])
    /\ pc = "done" =>
          /\ \A i \in 1..NumSources : FromSource(out, i) = streams[i]
          /\ Len(out) = SumLen(streams, 1)
          /\ NumSources = 1 => out = streams[1]

\* Two sources hold the same interval and a third item overlaps it: the merge
\* has yielded all of them, the first source's copy before the second's.
C5_Witness ==
    /\ pc = "done"
    /\ NumSources = 2
    /\ Len(out) = 3
    /\ out[1].start = out[2].start
    /\ out[1].end = out[2].end
    /\ out[1].src = 1
    /\ out[2].src = 2
    /\ out[3].start <= out[2].end

----------------------------------------------------------------------------
\* Difference (core.py:298-394). Operand 1 is the source, the others are the
\* subtractors; current is <<current_subtractor>>, or <<>> for None.

Subtractors == 2..NumSources

\* next(subtractor_iter) on the merged subtractor stream; None when it has
\* run out. ss = [cs, pos].
AdvanceSubtractor(ss) ==
    IF Heads(Subtractors, ss.pos) = {} THEN [ss EXCEPT !.cs = <<>>]
    ELSE LET i == MergePick(Subtractors, ss.pos)
         IN  [cs |-> <<streams[i][ss.pos[i] + 1]>>,
              pos |-> [ss.pos EXCEPT ![i] = ss.pos[i] + 1]]

\* while current_subtractor and current_subtractor.end < cursor
RECURSIVE SkipBefore(_, _)
SkipBefore(ss, cur) ==
    IF ss.cs # <<>> /\ ss.cs[1].end < cur
    THEN SkipBefore(AdvanceSubtractor(ss), cur)
    ELSE ss

\* The fragment before a hole, ended on the hole's first point.
FragmentBeforeUpTo(event, cur, overlapStart) == Replace(event, cur, overlapStart)

\* yield replace(event, start=cursor, end=overlap_start - 1)
FragmentBefore(event, cur, overlapStart) == Replace(event, cur, overlapStart - 1)

\* if current_subtractor.end <= event_end: advance_subtractor()
PassedBy(sub, event) == sub.end <= event.end

\* while current_subtractor and current_subtractor.start <= event_end.
\* c = [ss, cursor, frags].
RECURSIVE Carve(_, _)
Carve(event, c) ==
    IF c.ss.cs = <<>> \/ c.ss.cs[1].start > event.end THEN c
    ELSE LET sub == c.ss.cs[1]
             overlapStart == Max(c.cursor, sub.start)
             overlapEnd == Min(event.end, sub.end)
             hole == overlapStart <= overlapEnd
             frags == IF hole /\ c.cursor <= overlapStart - 1
                      THEN Append(c.frags, FragmentBefore(event, c.cursor, overlapStart))
                      ELSE c.frags
             cur == IF hole THEN overlapEnd + 1 ELSE c.cursor
         IN  IF hole /\ cur > event.end
             THEN [c EXCEPT !.cursor = cur, !.frags = frags]
             ELSE IF PassedBy(sub, event)
             THEN Carve(event, [ss |-> AdvanceSubtractor(c.ss),
                                cursor |-> cur, frags |-> frags])
             ELSE [c EXCEPT !.cursor = cur, !.frags = frags]

\* The body of `for event in self.source.fetch(start, end)`, for one event:
\* [ss, frags], the subtractor state left behind and the fragments yielded.
ProcessEvent(event, ss) ==
    IF ss.cs = <<>> THEN [ss |-> ss, frags |-> <<event>>]
    ELSE LET skipped == SkipBefore(ss, event.start)
         IN  IF skipped.cs = <<>> THEN [ss |-> skipped, frags |-> <<event>>]
             ELSE LET c == Carve(event, [ss |-> skipped, cursor |-> event.start,
                                         frags |-> <<>>])
                  IN  [ss |-> c.ss,
                       frags |-> IF c.cursor <= event.end
                                 THEN Append(c.frags, Replace(event, c.cursor, event.end))
                                 ELSE c.frags]

\* fetch() returns generate(), which has not started: no source is fetched yet.
DifferenceFetch ==
    /\ pc = "built"
    /\ pc' = "ready"
    /\ UNCHANGED <<streams, masks, query, pos, current, cursor, out, raised,
                   srcFetches, passes>>
    /\ UNCHANGED <<stages, pattern, kind, built, store, writes>>

\* The generator starts: the subtractors are fetched and merged, the first
\* subtractor is taken, and the source is fetched. Without subtractors the
\* source is yielded as it is.
DifferenceStart ==
    /\ pc = "ready"
    /\ LET ss == AdvanceSubtractor([cs |-> <<>>, pos |-> pos])
       IN  /\ current' = ss.cs
           /\ pos' = ss.pos
    /\ srcFetches' = NumSources
    /\ pc' = "loop"
    /\ UNCHANGED <<streams, masks, query, cursor, out, raised, passes>>
    /\ UNCHANGED <<stages, pattern, kind, built, store, writes>>

\* One source event, with every fragment it yields.
DifferenceEvent ==
    /\ pc = "loop"
    /\ pos[1] < Len(streams[1])
    /\ LET event == streams[1][pos[1] + 1]
           r == ProcessEvent(event, [cs |-> current, pos |-> pos])
       IN  /\ out' = out \o r.frags
           /\ current' = r.ss.cs
           /\ pos' = [r.ss.pos EXCEPT ![1] = pos[1] + 1]
    /\ passes' = passes + 1
    /\ UNCHANGED <<streams, masks, query, cursor, pc, raised, srcFetches>>
    /\ UNCHANGED <<stages, pattern, kind, built, store, writes>>

\* The source has run out: `for _ in subtractor_iter: pass`, and the end.
DifferenceDrain ==
    /\ pc = "loop"
    /\ pos[1] = Len(streams[1])
    /\ pos' = [i \in 1..NumSources |-> Len(streams[i])]
    /\ pc' = "done"
    /\ UNCHANGED <<streams, masks, query, current, cursor, out, raised,
                   srcFetches, passes>>
    /\ UNCHANGED <<stages, pattern, kind, built, store, writes>>

InitDifference == Built(1, Operands) /\ AnyMasks

NextDifference ==
    DifferenceFetch \/ DifferenceStart \/ DifferenceEvent \/ DifferenceDrain

SpecDifference == InitDifference /\ [][NextDifference]_vars

----------------------------------------------------------------------------
\* Properties of Difference

\* C3: the stream of fragments Difference yields is non-decreasing in
\* (start, end), for a source and subtractors that are each non-decreasing in
\* (start, end).
C3_DifferenceOrdered ==
    (\A i \in 1..NumSources : IsSorted(streams[i])) => IsSorted(out)

\* Every interval the leaf sources yielded intersects the window w.
LeavesIntersect(w) ==
    \A i \in 1..NumSources : \A x \in Range(streams[i]) :
        x.end >= w[1] /\ x.start <= w[2]

\* C4: for every window that all the intervals of the leaf sources intersect,
\* no yielded interval lies entirely before its start or entirely after its
\* end.
C4_YieldedIntersectWindow ==
    \A w \in Spans :
        LeavesIntersect(w) =>
            \A o \in Range(out) : ~(o.end < w[1]) /\ ~(o.start > w[2])

\* The points some subtractor covers.
Subtracted == UNION {Covered(Range(streams[i])) : i \in Subtractors}

\* The maximal runs a..b of points of event that no subtractor covers.
FreeRuns(event) ==
    {r \in Spans :
        /\ \A p \in r[1]..r[2] : p \in (event.start..event.end) \ Subtracted
        /\ (r[1] - 1) \notin (event.start..event.end) \ Subtracted
        /\ (r[2] + 1) \notin (event.start..event.end) \ Subtracted}

\* The runs of R in increasing order, as copies of event.
RECURSIVE CopiesOver(_, _)
CopiesOver(event, R) ==
    IF R = {} THEN <<>>
    ELSE LET r == CHOOSE x \in R : \A y \in R : x[1] <= y[1]
         IN  <<Replace(event, r[1], r[2])>> \o CopiesOver(event, R \ {r})

\* What is left of the first n source intervals.
RECURSIVE Remainders(_)
Remainders(n) ==
    IF n = 0 THEN <<>>
    ELSE Remainders(n - 1) \o CopiesOver(streams[1][n], FreeRuns(streams[1][n]))

SourceDisjoint ==
    \A j \in 1..(Len(streams[1]) - 1) : streams[1][j].end < streams[1][j + 1].start

----------------------------------------------------------------------------
\* Complement (core.py:397-451). Operand 1 is the source.

\* The values a caller may pass as start or end.
Bounds == {None} \cup {Some(n) : n \in Points}

\* The bounds check with the test of end forgotten.
RequiresFiniteStart(start, end) == start = None

\* if start is None or end is None: raise ValueError
RequiresFiniteBounds(start, end) == start = None \/ end = None

\* Interval(start=s, end=e): a bare interval, without metadata.
Bare(s, e) == [start |-> s, end |-> e, src |-> 0, k |-> 0]

\* fetch(start, end): raises, or returns generate(), which has not started.
ComplementFetch ==
    /\ pc = "built"
    /\ \E start \in Bounds, end \in Bounds :
          /\ query' = <<start, end>>
          /\ IF RequiresFiniteBounds(start, end)
             THEN /\ raised' = "ValueError"
                  /\ pc' = "raised"
             ELSE /\ raised' = raised
                  /\ pc' = "ready"
    /\ UNCHANGED <<streams, masks, pos, current, cursor, out, srcFetches, passes>>
    /\ UNCHANGED <<stages, pattern, kind, built, store, writes>>

\* The generator starts: cursor = start, and the source is fetched.
ComplementStart ==
    /\ pc = "ready"
    /\ cursor' = query[1]
    /\ srcFetches' = 1
    /\ pc' = "loop"
    /\ UNCHANGED <<streams, masks, query, pos, current, out, raised, passes>>
    /\ UNCHANGED <<stages, pattern, kind, built, store, writes>>

\* The trailing gap with the last point of the window forgotten.
TrailingStrict(cur, end) == IF cur < end THEN <<Bare(cur, end)>> ELSE <<>>

\* The trailing gap constructed without the test of the cursor.
TrailingUnchecked(cur, end) == <<Bare(cur, end)>>

\* if cursor <= end: yield Interval(start=cursor, end=end)
Trailing(cur, end) == IF cur <= end THEN <<Bare(cur, end)>> ELSE <<>>

\* The cursor left on the last covered point instead of the point after it.
MovedOnto(cur, segmentEnd) == Max(cur, segmentEnd)

\* cursor = max(cursor, segment_end + 1)
Moved(cur, segmentEnd) == Max(cur, segmentEnd + 1)

\* One turn of `for event in self.source.fetch(start, end)` over the source
\* stream src of which taken items have been read, or the end of the loop with
\* the trailing gap when the source is exhausted: the items read, the cursor,
\* what is yielded, and whether the generator has returned.
ComplementTurn(src, taken, cur, start, end) ==
    IF taken = Len(src)
    THEN [pos |-> taken, cursor |-> cur, yield |-> Trailing(cur, end),
          done |-> TRUE]
    ELSE LET event == src[taken + 1]
             segmentStart == Max(event.start, start)
             segmentEnd == Min(event.end, end)
             moved == Moved(cur, segmentEnd)
         IN  IF event.end < start
             THEN [pos |-> taken + 1, cursor |-> cur, yield |-> <<>>,
                   done |-> FALSE]
             ELSE IF event.start > end
             THEN [pos |-> taken + 1, cursor |-> cur,
                   yield |-> Trailing(cur, end), done |-> TRUE]
             ELSE IF segmentEnd < cur
             THEN [pos |-> taken + 1, cursor |-> cur, yield |-> <<>>,
                   done |-> FALSE]
             ELSE [pos |-> taken + 1, cursor |-> moved,
                   yield |-> IF segmentStart > cur
                             THEN <<Bare(cur, segmentStart - 1)>>
                             ELSE <<>>,
                   done |-> moved > end]

\* The generator of a Complement over a leaf source takes one turn.
ComplementEvent ==
    /\ pc = "loop"
    /\ LET t == ComplementTurn(streams[1], pos[1], cursor[1],
                               query[1][1], query[2][1])
       IN  /\ pos' = [pos EXCEPT ![1] = t.pos]
           /\ cursor' = Some(t.cursor)
           /\ out' = out \o t.yield
           /\ pc' = IF t.done THEN "done" ELSE "loop"
    /\ passes' = passes + 1
    /\ UNCHANGED <<streams, masks, query, current, raised, srcFetches>>
    /\ UNCHANGED <<stages, pattern, kind, built, store, writes>>

InitComplement == Built(1, 1) /\ AnyMasks

NextComplement == ComplementFetch \/ ComplementStart \/ ComplementEvent

SpecComplement == InitComplement /\ [][NextComplement]_vars

GapRuns(ivls, lo, hi) ==
    {r \in Spans :
        /\ \A p \in r[1]..r[2] : p \in (lo..hi) \ Covered(ivls)
        /\ (r[1] - 1) \notin (lo..hi) \ Covered(ivls)
        /\ (r[2] + 1) \notin (lo..hi) \ Covered(ivls)}

\* The runs of R in increasing order, as bare intervals.
RECURSIVE BareRuns(_)
BareRuns(R) ==
    IF R = {} THEN <<>>
    ELSE LET r == CHOOSE x \in R : \A y \in R : x[1] <= y[1]
         IN  <<Bare(r[1], r[2])>> \o BareRuns(R \ {r})

----------------------------------------------------------------------------
\* flatten (core.py:454-469): flatten(X) is ~(~X), a Complement whose source
\* is a Complement of X. The caller reads list(flatten(X)[start:end]) and then
\* list(flatten(flatten(X))[start:end]).
\*
\* stages[l] is the generator of the l-th Complement node: stages 1..2 are
\* those of flatten(X) and stages 3..6 those of flatten(flatten(X)), each
\* numbered from the node next to the leaf X up to the node the caller
\* fetches. A stage is [pc, cursor, pos, out]: pc is "unborn" (fetch not yet
\* called on the node), "ready" (fetch has returned generate()), "loop" or
\* "done"; pos counts the items read from its source; out is what it yielded.

\* flatten returning ~timeline, a single Complement.
FlattenOnce == 2 - 1

\* return ~(~timeline): two Complement nodes.
FlattenDepth == 2

\* The node the caller fetches in the first and in the second read.
FirstTop == FlattenDepth

SecondTop == FlattenDepth + (FlattenDepth + FlattenDepth)

\* The node the caller is reading.
Top == IF pc = "first" THEN FirstTop ELSE SecondTop

\* The lowest node of the expression the caller is reading.
Bottom == IF pc = "first" THEN 1 ELSE FirstTop + 1

Unborn == [pc |-> "unborn", cursor |-> None, pos |-> 0, out |-> <<>>]

\* Complement.fetch on node l, finite bounds: generate() is returned.
Born(st, l) == [st EXCEPT ![l].pc = "ready"]

\* The generator of node l is waiting for its source to yield or return.
Waiting(l) ==
    /\ l > Bottom
    /\ stages[l].pc = "loop"
    /\ stages[l].pos = Len(stages[l - 1].out)
    /\ stages[l - 1].pc # "done"

\* next() has been called on the generator of node l and has not returned.
RECURSIVE Demanded(_)
Demanded(l) ==
    /\ pc \in {"first", "second"}
    /\ l \in Bottom..Top
    /\ stages[l].pc \in {"ready", "loop"}
    /\ l < Top => (Demanded(l + 1) /\ Waiting(l + 1))

\* The generator of node l is the one that is executing.
Running(l) == Demanded(l) /\ ~Waiting(l)

\* flatten(X)[start:end]: fetch of the outer Complement, which raises or
\* returns its generate().
FlattenFetch ==
    /\ pc = "built"
    /\ \E start \in Bounds, end \in Bounds :
          /\ query' = <<start, end>>
          /\ IF RequiresFiniteBounds(start, end)
             THEN /\ raised' = "ValueError"
                  /\ pc' = "raised"
                  /\ UNCHANGED <<stages, pattern>>
             ELSE /\ raised' = raised
                  /\ pc' = "first"
                  /\ stages' = Born([l \in 1..SecondTop |-> Unborn], FirstTop)
    /\ UNCHANGED <<streams, masks, pos, current, cursor, out, srcFetches, passes>>
    /\ UNCHANGED <<pattern, kind, built, store, writes>>

\* The first list is complete; flatten(flatten(X))[start:end] is fetched.
FlattenAgainFetch ==
    /\ pc = "first"
    /\ stages[FirstTop].pc = "done"
    /\ pc' = "second"
    /\ out' = stages[FirstTop].out
    /\ stages' = Born(stages, SecondTop)
    /\ UNCHANGED <<streams, masks, query, pos, current, cursor, raised,
                   srcFetches, passes>>
    /\ UNCHANGED <<pattern, kind, built, store, writes>>

\* The generator of node l starts: cursor = start, and its source is fetched:
\* the leaf, or the Complement below, whose fetch returns its generate().
StageStart(l) ==
    /\ Running(l)
    /\ stages[l].pc = "ready"
    /\ LET started == [stages EXCEPT ![l].pc = "loop", ![l].cursor = query[1]]
       IN  IF l = Bottom
           THEN /\ stages' = started
                /\ srcFetches' = srcFetches + 1
           ELSE /\ stages' = Born(started, l - 1)
                /\ UNCHANGED srcFetches
    /\ UNCHANGED <<streams, masks, query, pos, current, cursor, out, pc, raised,
                   passes>>
    /\ UNCHANGED <<pattern, kind, built, store, writes>>

\* The generator of node l takes one turn of its loop over what its source
\* has yielded; the second list is complete when the top node returns.
StageTurn(l) ==
    /\ Running(l)
    /\ stages[l].pc = "loop"
    /\ LET src == IF l = Bottom THEN streams[1] ELSE stages[l - 1].out
           t == ComplementTurn(src, stages[l].pos, stages[l].cursor[1],
                               query[1][1], query[2][1])
       IN  /\ stages' = [stages EXCEPT
                            ![l].pos = t.pos,
                            ![l].cursor = Some(t.cursor),
                            ![l].out = stages[l].out \o t.yield,
                            ![l].pc = IF t.done THEN "done" ELSE "loop"]
           /\ pc' = IF l = SecondTop /\ t.done THEN "done" ELSE pc
    /\ passes' = passes + 1
    /\ UNCHANGED <<streams, masks, query, pos, current, cursor, out, raised,
                   srcFetches>>
    /\ UNCHANGED <<pattern, kind, built, store, writes>>

InitFlatten == Built(1, 1) /\ AnyMasks

NextFlatten ==
    \/ FlattenFetch
    \/ FlattenAgainFetch
    \/ \E l \in 1..SecondTop : StageStart(l)
    \/ \E l \in 1..SecondTop : StageTurn(l)

SpecFlatten == InitFlatten /\ [][NextFlatten]_vars

\* What list(flatten(X)[start:end]) returned.
Flat == stages[FirstTop].out

C13_FlattenIdempotent ==
    pc = "done" => stages[SecondTop].out = out

\* Both lists have been read and hold two runs each, over a source with
\* overlapping intervals.
C13_Witness ==
    /\ pc = "done"
    /\ Len(out) = 2
    /\ Len(stages[SecondTop].out) = 2
    /\ Len(streams[1]) = 3
    /\ \E j \in 1..2 : streams[1][j + 1].start <= streams[1][j].end

----------------------------------------------------------------------------
\* (A - B) | (A & B): a Union whose sources are Difference(A, B) and
\* Intersection(A, B), over the leaves A = operand 1 and B = operand 2.
\*
\* stages[1] is the generator of the Difference and stages[2] that of the
\* Intersection, each [pc, pos, current, out] with the meaning pos, current
\* and out have for a node fetched alone. heapq.merge reads the two generators
\* lazily: pos[k] counts the items it has taken from stages[k].out.

Fresh == [pc |-> "ready", pos |-> [i \in 1..NumSources |-> 0],
          current |-> <<>>, out |-> <<>>]

\* Union.fetch: Difference.fetch returns its generate(); Intersection.fetch
\* fetches both leaves and returns its generate(); heapq.merge returns a
\* generator that has not started.
RecombineFetch ==
    /\ pc = "built"
    /\ pc' = "ready"
    /\ stages' = <<Fresh, Fresh>>
    /\ srcFetches' = NumSources
    /\ UNCHANGED <<streams, masks, query, pos, current, cursor, out, raised,
                   passes>>
    /\ UNCHANGED <<pattern, kind, built, store, writes>>

\* heapq.merge needs the next item of generator k: at the start the head of
\* every generator, in order; later that of the generator whose item it
\* yielded last.
RECURSIVE Pulls(_)
Pulls(k) ==
    /\ pc \in {"ready", "loop"}
    /\ stages[k].pc # "done"
    /\ pos[k] = Len(stages[k].out)
    /\ k > 1 => ~Pulls(k - 1)

\* The Difference generator runs: it starts (both leaves are fetched and the
\* first subtractor is taken), or handles one source event, or drains the
\* subtractors and returns.
RecombineDifference ==
    /\ Pulls(1)
    /\ LET d == stages[1]
       IN  IF d.pc = "ready"
           THEN LET ss == AdvanceSubtractor([cs |-> <<>>, pos |-> d.pos])
                IN  /\ stages' = [stages EXCEPT ![1].pc = "loop",
                                                ![1].current = ss.cs,
                                                ![1].pos = ss.pos]
                    /\ srcFetches' = srcFetches + NumSources
           ELSE /\ UNCHANGED srcFetches
                /\ IF d.pos[1] < Len(streams[1])
                   THEN LET event == streams[1][d.pos[1] + 1]
                            r == ProcessEvent(event,
                                              [cs |-> d.current, pos |-> d.pos])
                        IN  stages' =
                                [stages EXCEPT
                                    ![1].out = d.out \o r.frags,
                                    ![1].current = r.ss.cs,
                                    ![1].pos = [r.ss.pos EXCEPT
                                                   ![1] = d.pos[1] + 1]]
                   ELSE stages' =
                            [stages EXCEPT
                                ![1].pc = "done",
                                ![1].pos = [i \in 1..NumSources |->
                                               Len(streams[i])]]
    /\ passes' = passes + 1
    /\ UNCHANGED <<streams, masks, query, pos, current, cursor, out, pc, raised>>
    /\ UNCHANGED <<pattern, kind, built, store, writes>>

\* The Intersection generator runs: it takes the first item of every source,
\* or makes one pass of its loop.
RecombineIntersection ==
    /\ Pulls(2)
    /\ LET n == stages[2]
       IN  IF n.pc = "ready"
           THEN LET empties == {i \in 1..NumSources : Len(streams[i]) = 0}
                    stop == IF empties = {} THEN NumSources + 1
                            ELSE SetMin(empties)
                IN  stages' =
                        [stages EXCEPT
                            ![2].pos = [i \in 1..NumSources |->
                                           IF i < stop THEN 1 ELSE 0],
                            ![2].current =
                                IF empties = {}
                                THEN [i \in 1..NumSources |-> streams[i][1]]
                                ELSE n.current,
                            ![2].pc = IF empties = {} THEN "loop" ELSE "done"]
           ELSE LET cutoff == OverlapEnd(n.current)
                    st == Advance(1, cutoff,
                                  [current |-> n.current, pos |-> n.pos,
                                   advanced |-> FALSE, stopped |-> FALSE])
                IN  stages' =
                        [stages EXCEPT
                            ![2].out = n.out \o Emitted(n.current, masks),
                            ![2].current = st.current,
                            ![2].pos = st.pos,
                            ![2].pc = IF st.stopped \/ ~st.advanced
                                      THEN "done" ELSE "loop"]
    /\ passes' = passes + 1
    /\ UNCHANGED <<streams, masks, query, pos, current, cursor, out, pc, raised,
                   srcFetches>>
    /\ UNCHANGED <<pattern, kind, built, store, writes>>

\* The generators that hold an item heapq.merge has not taken.
Pending == {k \in 1..Len(stages) : pos[k] < Len(stages[k].out)}

\* heapq.merge over the generators: the smallest head by (start, end); among
\* equal keys, the generator given first.
Smallest ==
    CHOOSE k \in Pending :
        \A j \in Pending :
            \/ KeyLess(stages[k].out[pos[k] + 1], stages[j].out[pos[j] + 1])
            \/ (KeyLeq(stages[k].out[pos[k] + 1], stages[j].out[pos[j] + 1])
                  /\ k <= j)

\* next(merged): the merge yields its smallest head, or ends when both
\* generators have returned.
RecombineNext ==
    /\ pc \in {"ready", "loop"}
    /\ \A k \in 1..Len(stages) : ~Pulls(k)
    /\ IF Pending = {}
       THEN /\ pc' = "done"
            /\ UNCHANGED <<pos, out>>
       ELSE /\ out' = Append(out, stages[Smallest].out[pos[Smallest] + 1])
            /\ pos' = [pos EXCEPT ![Smallest] = pos[Smallest] + 1]
            /\ pc' = "loop"
    /\ UNCHANGED <<streams, masks, query, current, cursor, raised, srcFetches,
                   passes, stages, pattern,
                   kind, built, store, writes>>

InitRecombine == Built(Operands, Operands) /\ AnyMasks

NextRecombine ==
    \/ RecombineFetch
    \/ RecombineDifference
    \/ RecombineIntersection
    \/ RecombineNext

SpecRecombine == InitRecombine /\ [][NextRecombine]_vars

\* C14: for ordered timelines A and B and any query window, the intervals
\* (A - B) | (A & B) yields cover, within the window, exactly the points A's
\* intervals cover there.
C14_RecombinedCoverage ==
    pc = "done" =>
        \A w \in Spans :
            Covered(Range(out)) \cap (w[1]..w[2]) =
                Covered(Range(streams[1])) \cap (w[1]..w[2])

\* A has two intervals that B splits differently: both a Difference fragment
\* and an Intersection overlap are in the output.
C14_Witness ==
    /\ pc = "done"
    /\ Len(streams[1]) = 2
    /\ Len(streams[2]) = 1
    /\ Len(stages[1].out) >= 2
    /\ Len(stages[2].out) >= 1
    /\ Len(out) = Len(stages[1].out) + Len(stages[2].out)
    /\ \E x \in Range(out) : x.start # streams[1][x.k].start

----------------------------------------------------------------------------
\* RecurringPattern (recurrence.py:59-309), in the UTC zone.
\*
\* A datetime is its day number, counted from 1970-01-01, and its second of
\* the day; a timestamp is day * DAY + second. pattern holds the fields of
\* the RecurringPattern: freq, interval, weekday (the day of the week a weekly
\* rule is given, 0 for Monday), start_seconds and duration_seconds.
\* current is <<anchor>>, the day rrule's dtstart falls on; cursor is the
\* period of the rule's next occurrence; pos is <<k>>, the occurrences read
\* from the rule so far.

HOUR == 3600

DAY == 86400

WEEK == 604800

\* Query bounds, start times of day and durations are multiples of half a day.
HalfDay == DAY \div 2

\* Query bounds lie within half a day of the start of one of the periods
\* (days, weeks, months, years) 0..MaxPeriods counted from the epoch.
MaxPeriods == 3
\* interval is 1..MaxInterval.
MaxInterval == 2
\* duration is 1..MaxDur halves of the frequency's lookback period.
MaxDur == 6
\* The caller of an unbounded fetch takes MaxTake items (islice).
MaxTake == 3

Frequencies == {"daily", "weekly", "monthly", "yearly"}

\* The civil calendar of datetime.
Leap(y) == (y % 4 = 0 /\ y % 100 # 0) \/ y % 400 = 0

LeapsBefore(y) == ((y - 1) \div 4) - ((y - 1) \div 100) + ((y - 1) \div 400)

\* The day number of January 1st of year y.
YearStart(y) == 365 * (y - 1970) + (LeapsBefore(y) - LeapsBefore(1970))

DaysInMonth(y, m) ==
    IF m = 2 THEN (IF Leap(y) THEN 29 ELSE 28)
    ELSE IF m \in {4, 6, 9, 11} THEN 30 ELSE 31

\* The days of a common year before the first day of each month.
CommonDaysBefore == <<0, 31, 59, 90, 120, 151, 181, 212, 243, 273, 304, 334>>

DaysBeforeMonth(y, m) ==
    CommonDaysBefore[m] + (IF m > 2 /\ Leap(y) THEN 1 ELSE 0)

\* The day number of the first day of month m of year y.
MonthStart(y, m) == YearStart(y) + DaysBeforeMonth(y, m)

\* datetime.year and datetime.month of the datetime on day number d.
YearOf(d) ==
    CHOOSE y \in (1970 + (d \div 366) - 1)..(1970 + (d \div 365) + 1) :
        YearStart(y) <= d /\ d < YearStart(y + 1)

MonthOf(d) ==
    CHOOSE m \in 1..12 :
        \E y \in {YearOf(d)} :
            /\ DaysBeforeMonth(y, m) <= d - YearStart(y)
            /\ d - YearStart(y) < DaysBeforeMonth(y, m) + DaysInMonth(y, m)

\* datetime.fromtimestamp(ts, tz).date(), and datetime.timestamp().
DayOf(ts) == ts \div DAY

Timestamp(day, second) == day * DAY + second

\* The Monday before the epoch, 1969-12-29.
EpochMonday == YearStart(1970) - 3

\* The months from 1970-01 to the month day d is in.
MonthIndex(d) == (YearOf(d) - 1970) * 12 + (MonthOf(d) - 1)

\* _get_safe_anchor, monthly: the first day of the aligned month, for
\* total_months months from the epoch's month.
AnchorMonth(p, totalMonths) ==
    LET offset == totalMonths % p.interval
        absTotal == (1970 * 12 + 1 - 1) + (totalMonths - offset)
    IN  MonthStart(absTotal \div 12, (absTotal % 12) + 1)

\* The rule started on the lookback date itself, with no alignment.
UnalignedAnchor(p, d) == d

\* _get_safe_anchor(start_dt): the day of the phase-aligned dtstart, for the
\* datetime on day number d.
SafeAnchor(p, d) ==
    IF p.freq = "daily"
    THEN LET deltaDays == d - YearStart(1970)
             offset == deltaDays % p.interval
         IN  YearStart(1970) + (deltaDays - offset)
    ELSE IF p.freq = "weekly"
    THEN LET deltaDays == d - EpochMonday
             weeks == deltaDays \div 7
             offset == weeks % p.interval
         IN  EpochMonday + 7 * (weeks - offset)
    ELSE IF p.freq = "monthly"
    THEN CHOOSE a \in {AnchorMonth(p, t) : t \in {MonthIndex(d)}} : TRUE
    ELSE LET deltaYears == YearOf(d) - 1970
             offset == deltaYears % p.interval
         IN  YearStart(YearOf(d) - offset)

\* The period the lookback adds to the duration.
LookbackPeriod(p) ==
    IF p.freq = "daily" THEN p.interval * DAY
    ELSE IF p.freq = "weekly" THEN p.interval * WEEK
    ELSE IF p.freq = "monthly" THEN p.interval * 32 * DAY
    ELSE p.interval * 366 * DAY

\* The lookback with the duration forgotten.
LookbackOfPeriod(p) == LookbackPeriod(p)

\* lookback_buffer = duration_seconds + interval * period
LookbackBuffer(p) == p.duration_seconds + LookbackPeriod(p)

\* anchor_dt for a fetch from start: the day of dtstart, which is at midnight.
AnchorOf(p, start) == SafeAnchor(p, DayOf(start - LookbackBuffer(p)))

\* rrule(dtstart=anchor, freq, interval, byweekday) counts periods from the
\* one dtstart is in: the day number for a daily rule, the day number of the
\* week's Monday for a weekly one, the month index, or the year.
RuleOrigin(p, anchor) ==
    IF p.freq \in {"daily", "weekly"} THEN anchor
    ELSE IF p.freq = "monthly" THEN MonthIndex(anchor)
    ELSE YearOf(anchor)

\* The period of the rule's next occurrence after that of period c.
RuleStep(p, c) == IF p.freq = "weekly" THEN c + 7 * p.interval ELSE c + p.interval

\* The day of the rule's occurrence in period c: the day itself, the rule's
\* weekday of the week, the 1st of the month, January 1st of the year; every
\* occurrence is at midnight, as dtstart is.
RuleDay(p, c) ==
    IF p.freq = "daily" THEN c
    ELSE IF p.freq = "weekly" THEN c + p.weekday
    ELSE IF p.freq = "monthly" THEN MonthStart(1970 + (c \div 12), (c % 12) + 1)
    ELSE YearStart(c)

\* _occurrence_to_interval: the occurrence's day at start_seconds, for
\* duration_seconds, as an interval of the default class without metadata.
OccurrenceToInterval(p, day) ==
    LET windowStart == Timestamp(day, (p.start_seconds \div HOUR) * HOUR
                                        + ((p.start_seconds % HOUR) \div 60) * 60
                                        + ((p.start_seconds % HOUR) % 60))
    IN  Bare(windowStart, windowStart + p.duration_seconds)

\* The day period k of the frequency begins on, counted from the epoch.
PeriodStart(freq, k) ==
    IF freq = "daily" THEN YearStart(1970) + k
    ELSE IF freq = "weekly" THEN EpochMonday + 7 * k
    ELSE IF freq = "monthly" THEN MonthStart(1970 + (k \div 12), (k % 12) + 1)
    ELSE YearStart(1970 + k)

\* Half the period the lookback counts for the frequency.
HalfPeriod(freq) ==
    IF freq = "daily" THEN HalfDay
    ELSE IF freq = "weekly" THEN WEEK \div 2
    ELSE IF freq = "monthly" THEN 16 * DAY
    ELSE 183 * DAY

\* RecurringPattern(freq, interval=, day=, start=, duration=): a weekly rule
\* is given Monday or Wednesday.
GridPatterns ==
    {[freq |-> f, interval |-> n, weekday |-> wd, start_seconds |-> ss,
      duration_seconds |-> j * HalfPeriod(f)] :
        f \in Frequencies, n \in 1..MaxInterval, wd \in {0, 2},
        ss \in {0, HalfDay}, j \in 1..MaxDur}

\* Every other Monday at 09:00 for an hour.
EveryOtherMonday ==
    [freq |-> "weekly", interval |-> 2, weekday |-> 0,
     start_seconds |-> 9 * HOUR, duration_seconds |-> HOUR]

Patterns ==
    {p \in GridPatterns : p.freq # "weekly" => p.weekday = 0}
        \cup {EveryOtherMonday}

\* 2025-01-01 and 2025-02-01, 00:00 UTC.
JanStart == Timestamp(MonthStart(2025, 1), 0)

FebStart == Timestamp(MonthStart(2025, 2), 0)

\* The timestamps a caller passes as start or end.
Marks(p) ==
    IF p = EveryOtherMonday THEN {JanStart, FebStart}
    ELSE {Timestamp(PeriodStart(p.freq, k), 0) + d * HalfDay :
             k \in 0..MaxPeriods, d \in {-1, 0, 1}}

QueryBounds(p) == {None} \cup {Some(t) : t \in Marks(p)}

\* fetch(start, end): fetch is a generator function, so the call runs none of
\* its body and returns a generator.
RecurringFetch ==
    /\ pc = "built"
    /\ \E start \in QueryBounds(pattern), end \in QueryBounds(pattern) :
          query' = <<start, end>>
    /\ pc' = "ready"
    /\ UNCHANGED <<streams, masks, pos, current, cursor, out, raised,
                   srcFetches, passes, stages, pattern,
                   kind, built, store, writes>>

\* The first next(): the body runs from its beginning. Without a start it
\* raises ValueError; otherwise the anchor is computed and the rule created.
RecurringStart ==
    /\ pc = "ready"
    /\ IF query[1] = None
       THEN /\ raised' = "ValueError"
            /\ pc' = "raised"
            /\ UNCHANGED <<current, cursor, pos>>
       ELSE /\ \E anchor \in {AnchorOf(pattern, query[1][1])} :
                  /\ current' = <<anchor>>
                  /\ cursor' = Some(RuleOrigin(pattern, anchor))
            /\ pos' = <<0>>
            /\ pc' = "loop"
            /\ UNCHANGED raised
    /\ UNCHANGED <<streams, masks, query, out, srcFetches, passes, stages,
                   pattern,
                   kind, built, store, writes>>

\* The fast-forward left out: no occurrence is skipped.
SkipsNothing(ivl, start) == FALSE

\* if ivl.end is not None and ivl.end < start: continue
EndsBefore(ivl, start) == ivl.end < start

\* The stop test with a missing end taken for an end already passed.
StartsAfterOrOpen(ivl, end) == end = None \/ ivl.start > end[1]

\* if end is not None and ivl.start is not None and ivl.start > end: break
StartsAfter(ivl, end) == end # None /\ ivl.start > end[1]

\* One turn of `for occurrence in rules`: the occurrence is skipped, or ends
\* the loop, or is yielded. The caller of a fetch without an end stops asking
\* after MaxTake items.
RecurringOccurrence ==
    /\ pc = "loop"
    /\ query[2] = None => Len(out) < MaxTake
    /\ LET ivl == OccurrenceToInterval(pattern, RuleDay(pattern, cursor[1]))
       IN  /\ pos' = <<pos[1] + 1>>
           /\ cursor' = Some(RuleStep(pattern, cursor[1]))
           /\ IF EndsBefore(ivl, query[1][1])
              THEN UNCHANGED <<out, pc>>
              ELSE IF StartsAfter(ivl, query[2])
              THEN /\ pc' = "done"
                   /\ UNCHANGED out
              ELSE /\ out' = Append(out, ivl)
                   /\ UNCHANGED pc
    /\ passes' = passes + 1
    /\ UNCHANGED <<streams, masks, query, current, raised, srcFetches, stages,
                   pattern,
                   kind, built, store, writes>>

InitRecurring == Unfetched(0, 0) /\ AnyMasks /\ pattern \in Patterns

NextRecurring == RecurringFetch \/ RecurringStart \/ RecurringOccurrence

SpecRecurring == InitRecurring /\ [][NextRecurring]_vars

----------------------------------------------------------------------------
\* Properties of RecurringPattern

\* Day d is one the rule of p falls on when its periods are counted from the
\* epoch: every interval-th day from 1970-01-01, week from Monday 1969-12-29
\* (on the rule's weekday), month (on the 1st) or year (on January 1st).
OnGrid(p, d) ==
    IF p.freq = "daily" THEN (d - YearStart(1970)) % p.interval = 0
    ELSE IF p.freq = "weekly"
    THEN /\ (d - p.weekday - EpochMonday) % 7 = 0
         /\ ((d - p.weekday - EpochMonday) \div 7) % p.interval = 0
    ELSE IF p.freq = "monthly"
    THEN /\ d = MonthStart(YearOf(d), MonthOf(d))
         /\ MonthIndex(d) % p.interval = 0
    ELSE /\ d = YearStart(YearOf(d))
         /\ (YearOf(d) - 1970) % p.interval = 0

\* The occurrence of p on day d.
Occurrence(p, d) ==
    Bare(Timestamp(d, p.start_seconds),
         Timestamp(d, p.start_seconds) + p.duration_seconds)

\* The grid occurrences that can meet a window from lo to hi.
Near(p, lo, hi) ==
    {Occurrence(p, d) :
        d \in {e \in (DayOf(lo - p.duration_seconds) - 1)..(DayOf(hi) + 1) :
                  OnGrid(p, e)}}

C16_AnchoredFortnight ==
    (pc = "done" /\ pattern = EveryOtherMonday
        /\ query = <<Some(JanStart), Some(FebStart)>>) =>
        /\ Len(out) >= 2
        /\ out[1].start = JanStart + 5 * DAY + 9 * HOUR
        /\ out[2].start = out[1].start + 14 * DAY

\* The generator has come to the occurrences that begin at start or later.
PastStart ==
    \/ pc = "done"
    \/ pc = "loop" /\ \E x \in Range(out) : x.start >= query[1][1]

\* C17: once the generator is past the start of a window start <= end, it has
\* yielded every occurrence that begins before start and lasts into the
\* window, however many there are.
C17_LookbackCatchesOverlaps ==
    (PastStart /\ (query[2] # None => query[1][1] <= query[2][1])) =>
        \A o \in Near(pattern, query[1][1], query[1][1]) :
            (o.start < query[1][1] /\ o.end > query[1][1]) => o \in Range(out)

\* Three occurrences that began before start and last into the window have
\* been yielded, and then one that began in the window.
C17_Witness ==
    /\ pc = "loop"
    /\ Len(out) = 4
    /\ \A i \in 1..3 : out[i].start < query[1][1] /\ out[i].end > query[1][1]
    /\ out[4].start >= query[1][1]

C19_NeedsStartAtFetch ==
    (pattern # <<>> /\ pc # "built" /\ query[1] = None) =>
        (pc = "raised" /\ raised = "ValueError")

\* C20: a fetch with a start and no end never ends on its own, yields in
\* non-decreasing start order, and the caller obtains every occurrence it
\* asks for, up to the last, after finitely many steps.
C20_UnboundedEnd ==
    /\ []((pattern # <<>> /\ pc # "built" /\ query[1] # None /\ query[2] = None)
            => (pc \in {"ready", "loop"}
                  /\ \A i \in 1..(Len(out) - 1) : out[i].start <= out[i + 1].start))
    /\ (pattern # <<>> /\ pc = "ready" /\ query[1] # None /\ query[2] = None)
          ~> (Len(out) = MaxTake)

\* The caller of an unbounded fetch has taken all the items it asked for,
\* after occurrences before the window were skipped.
C20_Witness ==
    /\ pattern # <<>>
    /\ pc = "loop"
    /\ query[2] = None
    /\ Len(out) = MaxTake
    /\ pos[1] > MaxTake

\* The generator runs whenever the caller asks for the next item.
SpecRecurringLive ==
    SpecRecurring /\ WF_vars(RecurringStart) /\ WF_vars(RecurringOccurrence)

----------------------------------------------------------------------------
\* Repeated fetch (core.py:185-451, recurrence.py:232-287): fetch is called
\* MaxCalls times on one node of class kind and the iterators it returned are
\* consumed in any interleaving.
\*
\* stages[s] is the state of one iterator, [pc, pos, current, cursor] with
\* the meaning pc, pos, current and cursor have for a node fetched once: the
\* local variables of one call of fetch and of the generator it returned.
\* pc[j] is "built" until the j-th caller has called fetch, then "ready",
\* "loop", "done" or "raised" as that caller sees its iterator; out[j] is
\* what the j-th caller has received.

\* fetch is called MaxCalls times on the node.
MaxCalls == 2

Callers == 1..MaxCalls

Kinds == {"Union", "Intersection", "Filtered", "Difference", "Complement",
          "RecurringPattern"}

\* Interval.__post_init__: start > end raises ValueError.
Valid(x) == x.start <= x.end

\* hours >= 2 and the like: Duration("seconds") >= 2.
Applies(event) == (event.end - event.start + 1) >= 2

FreshIterator ==
    [pc |-> "ready", pos |-> [i \in 1..NumSources |-> 0], current |-> <<>>,
     cursor |-> None]

\* next() on heapq.merge(*streams): [it, yield], the iterator afterwards and
\* the items it yielded.
UnionStep(it) ==
    IF Heads(1..NumSources, it.pos) = {}
    THEN [it |-> [it EXCEPT !.pc = "done"], yield |-> <<>>]
    ELSE LET i == MergePick(1..NumSources, it.pos)
         IN  [it |-> [it EXCEPT !.pc = "loop", !.pos[i] = it.pos[i] + 1],
              yield |-> <<streams[i][it.pos[i] + 1]>>]

\* Intersection's generate(): the first item of every source is taken, or one
\* pass of `while True` is made.
IntersectionStep(it) ==
    IF it.pc = "ready"
    THEN LET empties == {i \in 1..NumSources : Len(streams[i]) = 0}
             stop == IF empties = {} THEN NumSources + 1 ELSE SetMin(empties)
         IN  [it |-> [it EXCEPT
                         !.pos = [i \in 1..NumSources |->
                                     IF i < stop THEN 1 ELSE 0],
                         !.current = IF empties = {}
                                     THEN [i \in 1..NumSources |-> streams[i][1]]
                                     ELSE it.current,
                         !.pc = IF empties = {} THEN "loop" ELSE "done"],
              yield |-> <<>>]
    ELSE LET st == Advance(1, OverlapEnd(it.current),
                           [current |-> it.current, pos |-> it.pos,
                            advanced |-> FALSE, stopped |-> FALSE])
         IN  [it |-> [it EXCEPT
                         !.current = st.current,
                         !.pos = st.pos,
                         !.pc = IF st.stopped \/ ~st.advanced
                                THEN "done" ELSE "loop"],
              yield |-> Emitted(it.current, masks)]

\* (e for e in self.source.fetch(start, end) if self.filter.apply(e))
FilteredStep(it) ==
    IF it.pos[1] = Len(streams[1])
    THEN [it |-> [it EXCEPT !.pc = "done"], yield |-> <<>>]
    ELSE LET e == streams[1][it.pos[1] + 1]
         IN  [it |-> [it EXCEPT !.pc = "loop", !.pos[1] = it.pos[1] + 1],
              yield |-> IF Applies(e) THEN <<e>> ELSE <<>>]

\* Difference's generate(): it starts, or handles one source event, or drains
\* the subtractors and returns.
DifferenceStep(it) ==
    IF it.pc = "ready"
    THEN LET ss == AdvanceSubtractor([cs |-> <<>>, pos |-> it.pos])
         IN  [it |-> [it EXCEPT !.pc = "loop", !.current = ss.cs,
                                !.pos = ss.pos],
              yield |-> <<>>]
    ELSE IF it.pos[1] < Len(streams[1])
    THEN LET r == ProcessEvent(streams[1][it.pos[1] + 1],
                               [cs |-> it.current, pos |-> it.pos])
         IN  [it |-> [it EXCEPT !.current = r.ss.cs,
                                !.pos = [r.ss.pos EXCEPT ![1] = it.pos[1] + 1]],
              yield |-> r.frags]
    ELSE [it |-> [it EXCEPT !.pc = "done",
                            !.pos = [i \in 1..NumSources |-> Len(streams[i])]],
          yield |-> <<>>]

\* Complement's generate(): cursor = start, or one turn of its loop.
ComplementStep(it) ==
    IF it.pc = "ready"
    THEN [it |-> [it EXCEPT !.pc = "loop", !.cursor = query[1]],
          yield |-> <<>>]
    ELSE LET t == ComplementTurn(streams[1], it.pos[1], it.cursor[1],
                                 query[1][1], query[2][1])
         IN  [it |-> [it EXCEPT !.pos[1] = t.pos,
                                !.cursor = Some(t.cursor),
                                !.pc = IF t.done THEN "done" ELSE "loop"],
              yield |-> t.yield]

\* RecurringPattern.fetch's generator: the first next() raises or creates the
\* rule; later ones take one occurrence of the rule.
RecurringStep(it) ==
    IF it.pc = "ready"
    THEN IF query[1] = None
         THEN [it |-> [it EXCEPT !.pc = "raised"], yield |-> <<>>]
         ELSE LET anchor == AnchorOf(pattern, query[1][1])
              IN  [it |-> [it EXCEPT !.pc = "loop", !.current = <<anchor>>,
                                     !.cursor = Some(RuleOrigin(pattern, anchor))],
                   yield |-> <<>>]
    ELSE LET ivl == OccurrenceToInterval(pattern, RuleDay(pattern, it.cursor[1]))
             stepped == [it EXCEPT !.cursor = Some(RuleStep(pattern, it.cursor[1]))]
         IN  IF EndsBefore(ivl, query[1][1])
             THEN [it |-> stepped, yield |-> <<>>]
             ELSE IF StartsAfter(ivl, query[2])
             THEN [it |-> [stepped EXCEPT !.pc = "done"], yield |-> <<>>]
             ELSE [it |-> stepped, yield |-> <<ivl>>]

\* The iterator of a node of class kind runs from one resumption to the next.
IteratorStep(it) ==
    IF kind = "Union" THEN UnionStep(it)
    ELSE IF kind = "Intersection" THEN IntersectionStep(it)
    ELSE IF kind = "Filtered" THEN FilteredStep(it)
    ELSE IF kind = "Difference" THEN DifferenceStep(it)
    ELSE IF kind = "Complement" THEN ComplementStep(it)
    ELSE RecurringStep(it)

\* The items of ys before the first one whose construction raises.
RECURSIVE UpToInvalid(_)
UpToInvalid(ys) ==
    IF ys = <<>> \/ ~Valid(Head(ys)) THEN <<>>
    ELSE <<Head(ys)>> \o UpToInvalid(Tail(ys))

\* Every call of fetch shares one iterator state kept on the node.
IteratorOnNode(j) == 1

\* The j-th call of fetch creates its own iterators and its own generator
\* frame: the j-th iterator state.
IteratorOf(j) == j

\* The j-th caller calls fetch(start, end). Complement raises for a missing
\* bound; every other class returns an iterator that has not started.
ReentrantFetch(j) ==
    /\ pc[j] = "built"
    /\ IF kind = "Complement" /\ RequiresFiniteBounds(query[1], query[2])
       THEN /\ pc' = [pc EXCEPT ![j] = "raised"]
            /\ raised' = "ValueError"
            /\ UNCHANGED stages
       ELSE /\ pc' = [pc EXCEPT ![j] = "ready"]
            /\ stages' = [stages EXCEPT ![IteratorOf(j)] = FreshIterator]
            /\ UNCHANGED raised
    /\ srcFetches' = srcFetches + 1
    /\ UNCHANGED <<streams, masks, query, pos, current, cursor, out, passes,
                   pattern, kind, built, store, writes>>

\* The j-th caller asks its iterator for more: the generator runs to its next
\* suspension or to its end, or raises.
ReentrantNext(j) ==
    /\ pc[j] \in {"ready", "loop"}
    /\ LET r == IteratorStep(stages[IteratorOf(j)])
           ok == \A x \in Range(r.yield) : Valid(x)
       IN  /\ stages' = [stages EXCEPT ![IteratorOf(j)] = r.it]
           /\ out' = [out EXCEPT ![j] = out[j] \o UpToInvalid(r.yield)]
           /\ pc' = [pc EXCEPT ![j] = IF ok THEN r.it.pc ELSE "raised"]
           /\ raised' = IF ~ok \/ r.it.pc = "raised" THEN "ValueError"
                        ELSE raised
    /\ passes' = passes + 1
    /\ UNCHANGED <<streams, masks, query, pos, current, cursor, srcFetches,
                   pattern, kind, built, store, writes>>

\* The patterns fetched twice over: one lookback half-period long, from
\* midnight.
ReentrantPatterns ==
    {p \in Patterns : p.start_seconds = 0
                      /\ p.duration_seconds = HalfPeriod(p.freq)}

\* A node of each class with its sources, and the bounds every caller passes:
\* any two points for a Complement, two marks for a RecurringPattern.
InitReentrant ==
    /\ kind \in Kinds
    /\ IF kind = "RecurringPattern"
       THEN /\ StreamsWithin(0, 0)
            /\ pattern \in ReentrantPatterns
            /\ \E a \in Marks(pattern), b \in Marks(pattern) :
                  query = <<Some(a), Some(b)>>
       ELSE /\ pattern = <<>>
            /\ IF kind \in {"Complement", "Filtered"}
               THEN StreamsWithin(1, 1)
               ELSE StreamsWithin(1, Operands)
            /\ IF kind = "Complement"
               THEN \E a \in Points, b \in Points : query = <<Some(a), Some(b)>>
               ELSE query = <<None, None>>
    /\ AnyMasks
    /\ pos = <<>>
    /\ current = <<>>
    /\ cursor = None
    /\ out = [j \in Callers |-> <<>>]
    /\ pc = [j \in Callers |-> "built"]
    /\ raised = "none"
    /\ srcFetches = 0
    /\ passes = 0
    /\ stages = [j \in Callers |-> FreshIterator]
    /\ built = <<>>
    /\ store = <<>>
    /\ writes = <<>>

NextReentrant ==
    \/ \E j \in Callers : ReentrantFetch(j)
    \/ \E j \in Callers : ReentrantNext(j)

SpecReentrant == InitReentrant /\ [][NextReentrant]_vars

\* What an iterator in state it yields from there on when nothing else runs.
RECURSIVE Alone(_)
Alone(it) ==
    IF it.pc \in {"done", "raised"} THEN <<>>
    ELSE LET r == IteratorStep(it)
         IN  IF \A x \in Range(r.yield) : Valid(x)
             THEN r.yield \o Alone(r.it)
             ELSE UpToInvalid(r.yield)

\* C21: however the iterators of several fetch calls on one node are
\* interleaved, each caller has received a prefix of the sequence a single
\* fetch consumed alone yields, the whole of it once its iterator has ended,
\* and the node's fields (its sources, their maskness, its pattern) are never
\* changed.
C21_FetchKeepsNoStateOnNode ==
    /\ []( \A j \in Callers :
              /\ Len(out[j]) <= Len(Alone(FreshIterator))
              /\ out[j] = SubSeq(Alone(FreshIterator), 1, Len(out[j]))
              /\ pc[j] = "done" => out[j] = Alone(FreshIterator) )
    /\ [][<<kind, streams, masks, pattern>>' = <<kind, streams, masks, pattern>>]_vars

\* The second caller has consumed its iterator to the end while the first
\* caller's iterator, created earlier, is suspended halfway.
C21_Witness ==
    /\ kind = "Intersection"
    /\ pc = <<"loop", "done">>
    /\ Len(out[1]) >= 1
    /\ Len(out[2]) > Len(out[1])

----------------------------------------------------------------------------
\* Slicing (core.py:29-78): timeline[a:b] on a leaf timeline.
\*
\* A slice bound is a record with its Python type: None, an int n, a
\* datetime (aware or naive) at micro microseconds after second sec, counted
\* from 1970-01-01T00:00:00 UTC, a date on day number `day`, or a str or
\* float. current is <<a, b>>, the slice the caller wrote.

PyNone == [type |-> "NoneType"]

PyInt(n) == [type |-> "int", n |-> n]

PyDatetime(aware, sec, micro) ==
    [type |-> "datetime", aware |-> aware, sec |-> sec, micro |-> micro]

PyDate(day) == [type |-> "date", day |-> day]

\* The values a caller writes as slice bounds: days before and after the
\* epoch, and datetimes with and without a fraction of a second.
SliceValues ==
    {PyNone, [type |-> "str"], [type |-> "float"]}
        \cup {PyInt(n) : n \in {-1, 0, 5}}
        \cup {PyDatetime(a, sm[1], sm[2]) :
                 a \in BOOLEAN, sm \in {<<-2, 500000>>, <<0, 0>>, <<2, 0>>}}
        \cup {PyDate(d) : d \in -1..1}

\* int(dt.timestamp()): timestamp() is the float sec + micro / 10^6, which a
\* double holds without rounding up to the next second for the datetimes of
\* SliceValues, and int() drops the fraction, rounding towards zero.
IntOfTimestamp(dt) ==
    IF dt.sec >= 0 \/ dt.micro = 0 THEN dt.sec ELSE dt.sec + 1

\* datetime.combine(bound, time.min, tzinfo=utc) and (bound, time.max, ...):
\* time.max is 23:59:59.999999.
CombineMin(day) == PyDatetime(TRUE, day * DAY, 0)

CombineMax(day) == PyDatetime(TRUE, day * DAY + (DAY - 1), 999999)

\* _coerce_bound raises TypeError.
CoerceRaises(bound) ==
    \/ bound.type = "datetime" /\ ~bound.aware
    \/ bound.type \notin {"NoneType", "int", "datetime", "date"}

\* _coerce_bound(bound, edge), when it does not raise.
CoerceBound(bound, edge) ==
    IF bound.type = "NoneType" THEN None
    ELSE IF bound.type = "int" THEN Some(bound.n)
    ELSE IF bound.type = "datetime" THEN Some(IntOfTimestamp(bound))
    ELSE IF edge = "start" THEN Some(IntOfTimestamp(CombineMin(bound.day)))
    ELSE Some(IntOfTimestamp(CombineMax(bound.day)))

\* __getitem__(slice(a, b)): start is coerced, then end, then fetch is
\* called with both; a bound that raises ends the call there.
GetItem ==
    /\ pc = "built"
    /\ \E a \in SliceValues, b \in SliceValues :
          /\ current' = <<a, b>>
          /\ IF CoerceRaises(a) \/ CoerceRaises(b)
             THEN /\ raised' = "TypeError"
                  /\ pc' = "raised"
                  /\ UNCHANGED <<query, srcFetches>>
             ELSE /\ query' = <<CoerceBound(a, "start"), CoerceBound(b, "end")>>
                  /\ srcFetches' = srcFetches + 1
                  /\ pc' = "ready"
                  /\ UNCHANGED raised
    /\ UNCHANGED <<streams, masks, pos, cursor, out, passes, stages, pattern,
                   kind, built, store, writes>>

InitSlice == Built(0, 0) /\ AnyMasks

NextSlice == GetItem

SpecSlice == InitSlice /\ [][NextSlice]_vars

\* The integer a bound of the slice is to become, for edge "start" or "end".
BoundWanted(bound, edge, got) ==
    IF bound.type = "NoneType" THEN got = None
    ELSE IF bound.type = "int" THEN got = Some(bound.n)
    ELSE IF bound.type = "datetime"
    THEN got # None /\ got[1] \in {bound.sec, bound.sec + 1}
                    /\ bound.micro = 0 => got[1] = bound.sec
    ELSE IF edge = "start" THEN got = Some(bound.day * DAY)
    ELSE got = Some(bound.day * DAY + (DAY - 1))

\* C22: a slice with a naive datetime or a value of another type as a bound
\* has raised TypeError without calling fetch; otherwise fetch has been called
\* once with None and integers unchanged, an aware datetime as its timestamp
\* in whole seconds (a fraction rounded either way), and a date as the first second of its day in UTC for the
\* start and the last second of its day for the end.
C22_SliceBoundsCoerced ==
    pc # "built" =>
        IF \E i \in 1..2 : CoerceRaises(current[i])
        THEN pc = "raised" /\ raised = "TypeError" /\ srcFetches = 0
        ELSE /\ pc = "ready"
             /\ srcFetches = 1
             /\ BoundWanted(current[1], "start", query[1])
             /\ BoundWanted(current[2], "end", query[2])

----------------------------------------------------------------------------
\* Composition with | and & (core.py:86-152). An operand is the class of the
\* object: a leaf "Timeline" or "Filter", or the class of a node an earlier
\* expression built. built holds, for every expression evaluated so far, its
\* operator and operands, the class of the node it returned ("none" when it
\* raised) and the exception it raised ("none" when it returned).

\* The caller evaluates up to MaxExprs expressions.
MaxExprs == 2

TimelineClasses == {"Timeline", "Union", "Intersection", "Filtered"}

FilterClasses == {"Filter", "Or", "And"}

\* isinstance(other, Filter); isinstance(other, Timeline)
IsFilter(c) == c \in FilterClasses

IsTimeline(c) == c \in TimelineClasses

Returned(class) == [node |-> class, raised |-> "none"]

Raised(exception) == [node |-> "none", raised |-> exception]

\* Timeline.__or__ without the isinstance test.
TimelineOrUnchecked(self, other) == Returned("Union")

\* Timeline.__or__(self, other)
TimelineOr(self, other) ==
    IF IsFilter(other) THEN Raised("TypeError") ELSE Returned("Union")

\* Timeline.__and__(self, other)
TimelineAnd(self, other) ==
    IF IsFilter(other) THEN Returned("Filtered") ELSE Returned("Intersection")

\* Filter.__or__(self, other)
FilterOr(self, other) ==
    IF IsTimeline(other) THEN Raised("TypeError") ELSE Returned("Or")

\* Filter.__and__(self, other)
FilterAnd(self, other) ==
    IF IsTimeline(other) THEN Returned("Filtered") ELSE Returned("And")

\* The objects at hand: the two leaves and the nodes built so far.
Objects == {"Timeline", "Filter"} \cup ({built[i].node : i \in 1..Len(built)} \ {"none"})

\* left | right: Python calls type(left).__or__(left, right).
EvaluateOr ==
    /\ Len(built) < MaxExprs
    /\ \E left \in Objects, right \in Objects :
          built' = Append(built,
                          [op |-> "|", left |-> left, right |-> right]
                              @@ (IF IsTimeline(left) THEN TimelineOr(left, right)
                                  ELSE FilterOr(left, right)))
    /\ UNCHANGED <<streams, masks, query, pos, current, cursor, out, pc, raised,
                   srcFetches, passes, stages, pattern, kind, store, writes>>

\* left & right: Python calls type(left).__and__(left, right).
EvaluateAnd ==
    /\ Len(built) < MaxExprs
    /\ \E left \in Objects, right \in Objects :
          built' = Append(built,
                          [op |-> "&", left |-> left, right |-> right]
                              @@ (IF IsTimeline(left) THEN TimelineAnd(left, right)
                                  ELSE FilterAnd(left, right)))
    /\ UNCHANGED <<streams, masks, query, pos, current, cursor, out, pc, raised,
                   srcFetches, passes, stages, pattern, kind, store, writes>>

InitCompose == Built(0, 0) /\ AnyMasks

NextCompose == EvaluateOr \/ EvaluateAnd

SpecCompose == InitCompose /\ [][NextCompose]_vars

\* C23: every expression timeline | filter and filter | timeline evaluated so
\* far has raised TypeError and returned no node, neither a Union nor an Or,
\* and no source has been fetched.
C23_UnionWithFilterRaises ==
    /\ \A i \in 1..Len(built) :
          (built[i].op = "|"
              /\ ((IsTimeline(built[i].left) /\ IsFilter(built[i].right))
                    \/ (IsFilter(built[i].left) /\ IsTimeline(built[i].right)))) =>
              (built[i].raised = "TypeError" /\ built[i].node = "none")
    /\ built # <<>> => srcFetches = 0

\* A filtered timeline was built with &, and its union with a filter raised.
C23_Witness ==
    /\ Len(built) = 2
    /\ built[1].node = "Filtered"
    /\ built[2].op = "|"
    /\ built[2].left = "Filtered"
    /\ built[2].right = "Filter"
    /\ built[2].raised = "TypeError"

----------------------------------------------------------------------------
\* MemoryTimeline (mutable/__init__.py:34-126, mutable/memory.py:18-227).
\*
\* An event is a record [start, end, id, summary]: an Interval subclass with
\* an id field, None (<<>>) or <<n>>, and one metadata field. store is
\* [static, recurring]: _static_intervals and _recurring_patterns, the
\* latter as [pattern, metadata] pairs. writes[i] is the generator the i-th
\* call of add or remove returned: [op, item, metadata, pc, result], pc
\* "created" until the caller iterates it (list(...)), "done" afterwards, and
\* result the WriteResult it yielded. pc is "idle", or "fetched" once the
\* caller has read list(mem.fetch(start, end)) into out.

\* The caller makes up to MaxWrites calls of add and remove.
MaxWrites == 3

Event(se, id, summary) ==
    [start |-> se[1], end |-> se[2], id |-> id, summary |-> summary]

\* The events a caller holds: points and two-point ranges near the start of
\* the line, one kind without an id and one with id 1, their summaries
\* different.
MemoryEvents ==
    {Event(se, m[1], m[2]) :
        se \in {x \in Spans : x[1] <= 1 /\ x[2] - x[1] <= 1},
        m \in {<<None, "a">>, <<Some(1), "b">>}}

\* add(item, **metadata): no keyword, or summary="c".
Metadata == {<<>>, [summary |-> "c"]}

\* Interval.finite_start and finite_end of an interval with both ends set.
FiniteStart(x) == x.start

FiniteEnd(x) == x.end

\* sorted(intervals, key=(finite_start, finite_end)): x put into the sorted
\* list s behind every item whose key is not greater (the sort is stable).
RECURSIVE InsertByKey(_, _)
InsertByKey(s, x) ==
    IF s = <<>> THEN <<x>>
    ELSE IF FiniteStart(Head(s)) < FiniteStart(x)
            \/ (FiniteStart(Head(s)) = FiniteStart(x)
                  /\ FiniteEnd(Head(s)) <= FiniteEnd(x))
    THEN <<Head(s)>> \o InsertByKey(Tail(s), x)
    ELSE <<x>> \o s

RECURSIVE SortedByKey(_)
SortedByKey(s) ==
    IF s = <<>> THEN <<>>
    ELSE InsertByKey(SortedByKey(SubSeq(s, 1, Len(s) - 1)), s[Len(s)])

\* _max_end_prefix[i] = max(finite_end of intervals[:i+1])
MaxEndPrefix(s) ==
    [i \in 1..Len(s) |-> SetMax({FiniteEnd(s[j]) : j \in 1..i})]

\* bisect.bisect_left(a, v) and bisect.bisect_right(a, v) on a sorted list.
BisectLeft(a, v) == Cardinality({i \in 1..Len(a) : a[i] < v})

BisectRight(a, v) == Cardinality({i \in 1..Len(a) : a[i] <= v})

\* The final filter of _StaticTimeline.fetch.
RECURSIVE SkipEndedBy(_, _)
SkipEndedBy(s, start) ==
    IF s = <<>> THEN <<>>
    ELSE (IF start # None /\ FiniteEnd(Head(s)) <= start[1]
          THEN <<>> ELSE <<Head(s)>>) \o SkipEndedBy(Tail(s), start)

\* list(_StaticTimeline(intervals).fetch(start, end))
StaticFetch(intervals, start, end) ==
    LET s == SortedByKey(intervals)
        startIdx == IF start # None THEN BisectLeft(MaxEndPrefix(s), start[1])
                    ELSE 0
        endIdx == IF end # None
                  THEN BisectRight([i \in 1..Len(s) |-> FiniteStart(s[i])], end[1])
                  ELSE Len(s)
    IN  SkipEndedBy(SubSeq(s, startIdx + 1, endIdx), start)

\* list(pattern.fetch(start, end)) for finite start and end, from the rule's
\* period c on.
RECURSIVE ExpandFrom(_, _, _, _)
ExpandFrom(p, c, start, end) ==
    LET ivl == OccurrenceToInterval(p, RuleDay(p, c))
    IN  IF EndsBefore(ivl, start[1]) THEN ExpandFrom(p, RuleStep(p, c), start, end)
        ELSE IF StartsAfter(ivl, end) THEN <<>>
        ELSE <<ivl>> \o ExpandFrom(p, RuleStep(p, c), start, end)

Expand(p, start, end) ==
    ExpandFrom(p, RuleOrigin(p, AnchorOf(p, start[1])), start, end)

\* list(heapq.merge(*parts, key=(start, end))) over lists.
RECURSIVE MergeParts(_)
MergeParts(parts) ==
    LET live == {i \in 1..Len(parts) : parts[i] # <<>>}
    IN  IF live = {} THEN <<>>
        ELSE LET i == CHOOSE a \in live : \A b \in live :
                         \/ KeyLess(Head(parts[a]), Head(parts[b]))
                         \/ (KeyLeq(Head(parts[a]), Head(parts[b])) /\ a <= b)
             IN  <<Head(parts[i])>>
                     \o MergeParts([parts EXCEPT ![i] = Tail(parts[i])])

\* list(MemoryTimeline.fetch(start, end)): the recurring patterns and, when
\* there is one, the static timeline; a single part is fetched itself and
\* several through a Union.
MemoryFetchList(st, start, end) ==
    LET parts == [i \in 1..Len(st.recurring) |->
                     Expand(st.recurring[i].pattern, start, end)]
                 \o (IF st.static # <<>>
                     THEN <<StaticFetch(st.static, start, end)>> ELSE <<>>)
    IN  IF parts = <<>> THEN <<>>
        ELSE IF Len(parts) = 1 THEN parts[1]
        ELSE MergeParts(parts)

WriteResult(success, event, error) ==
    [success |-> success, event |-> event, error |-> error]

\* s without its i-th item: list.pop(i).
Pop(s, i) == SubSeq(s, 1, i - 1) \o SubSeq(s, i + 1, Len(s))

\* _add_interval(interval, metadata): [store, result].
AddInterval(st, interval, metadata) ==
    LET stored == IF metadata # <<>>
                  THEN [interval EXCEPT !.summary = metadata.summary]
                  ELSE interval
    IN  [store |-> [st EXCEPT !.static = Append(st.static, stored)],
         result |-> WriteResult(TRUE, <<stored>>, "none")]

\* RecurringPattern(freq=, interval=, duration=, tz=, interval_class=,
\* **merged_metadata): day, week, day_of_month, month and start take their
\* defaults, so a weekly rule falls on the weekday of its dtstart, a Monday,
\* and every occurrence begins at midnight.
Enriched(p) ==
    [freq |-> p.freq, interval |-> p.interval, weekday |-> 0,
     start_seconds |-> 0, duration_seconds |-> p.duration_seconds]

\* _add_recurring(pattern, metadata): [store, result].
AddRecurring(st, p, metadata) ==
    [store |-> [st EXCEPT !.recurring =
                   Append(st.recurring,
                          IF metadata # <<>>
                          THEN [pattern |-> Enriched(p), metadata |-> metadata]
                          ELSE [pattern |-> p, metadata |-> <<>>])],
     result |-> WriteResult(TRUE, <<>>, "none")]

\* _remove_interval(interval): [store, result].
RemoveInterval(st, interval) ==
    LET byId == {i \in 1..Len(st.static) :
                    interval.id # None /\ st.static[i].id = interval.id}
        same == {i \in 1..Len(st.static) : st.static[i] = interval}
    IN  IF byId # {}
        THEN [store |-> [st EXCEPT !.static = Pop(st.static, SetMin(byId))],
              result |-> WriteResult(TRUE, <<st.static[SetMin(byId)]>>, "none")]
        ELSE IF same # {}
        THEN [store |-> [st EXCEPT !.static = Pop(st.static, SetMin(same))],
              result |-> WriteResult(TRUE, <<st.static[SetMin(same)]>>, "none")]
        ELSE [store |-> st, result |-> WriteResult(FALSE, <<>>, "ValueError")]

\* add(item, **metadata) is called: add is a generator function, so the call
\* runs none of its body and returns a generator. The caller adds the
\* pattern when it has one, and events otherwise.
MemoryAdd ==
    /\ pc = "idle"
    /\ Len(writes) < MaxWrites
    /\ \E item \in (IF pattern = <<>> THEN MemoryEvents ELSE {pattern}),
          metadata \in Metadata :
          writes' = Append(writes, [op |-> "add", item |-> item,
                                    metadata |-> metadata, pc |-> "created",
                                    result |-> <<>>])
    /\ UNCHANGED <<streams, masks, query, pos, current, cursor, out, pc, raised,
                   srcFetches, passes, stages, pattern, kind, built, store>>

\* remove(item) is called: a generator function as well.
MemoryRemove ==
    /\ pc = "idle"
    /\ Len(writes) < MaxWrites
    /\ \E item \in MemoryEvents :
          writes' = Append(writes, [op |-> "remove", item |-> item,
                                    metadata |-> <<>>, pc |-> "created",
                                    result |-> <<>>])
    /\ UNCHANGED <<streams, masks, query, pos, current, cursor, out, pc, raised,
                   srcFetches, passes, stages, pattern, kind, built, store>>

\* The caller iterates the generator of the i-th call: the body of add or
\* remove runs, dispatching on the item, and yields its WriteResult.
WriteRun(i) ==
    /\ pc = "idle"
    /\ writes[i].pc = "created"
    /\ LET w == writes[i]
           r == IF w.op = "remove" THEN RemoveInterval(store, w.item)
                ELSE IF w.item \in MemoryEvents
                THEN AddInterval(store, w.item, w.metadata)
                ELSE AddRecurring(store, w.item, w.metadata)
       IN  /\ store' = r.store
           /\ writes' = [writes EXCEPT ![i].pc = "done", ![i].result = <<r.result>>]
    /\ passes' = passes + 1
    /\ UNCHANGED <<streams, masks, query, pos, current, cursor, out, pc, raised,
                   srcFetches, stages, pattern, kind, built>>

\* The windows a caller fetches: any bounds for a timeline of events, from
\* one mark to a later one for a timeline of patterns.
MemoryWindows ==
    IF pattern = <<>>
    THEN {w \in Bounds \X Bounds : w[1] = None \/ w[2] = None \/ w[1][1] <= w[2][1]}
    ELSE {<<Some(w[1]), Some(w[2])>> :
             w \in {x \in Marks(pattern) \X Marks(pattern) : x[1] <= x[2]}}

\* list(mem.fetch(start, end)), the last thing the caller does.
MemoryFetch ==
    /\ pc = "idle"
    /\ \E w \in MemoryWindows :
          /\ query' = w
          /\ out' = MemoryFetchList(store, w[1], w[2])
    /\ pc' = "fetched"
    /\ srcFetches' = srcFetches + 1
    /\ UNCHANGED <<streams, masks, pos, current, cursor, raised, passes, stages,
                   pattern, kind, built, store, writes>>

\* MemoryTimeline(): empty lists.
EmptyMemory ==
    /\ StreamsWithin(0, 0)
    /\ AnyMasks
    /\ query = <<None, None>>
    /\ pos = <<>>
    /\ current = <<>>
    /\ cursor = None
    /\ out = <<>>
    /\ pc = "idle"
    /\ raised = "none"
    /\ srcFetches = 0
    /\ passes = 0
    /\ stages = <<>>
    /\ kind = ""
    /\ built = <<>>
    /\ store = [static |-> <<>>, recurring |-> <<>>]
    /\ writes = <<>>

InitMemory == EmptyMemory /\ pattern = <<>>

NextMemory ==
    \/ MemoryAdd
    \/ MemoryRemove
    \/ \E i \in 1..Len(writes) : WriteRun(i)
    \/ MemoryFetch

SpecMemory == InitMemory /\ [][NextMemory]_vars

\* The window w contains the interval x.
WindowContains(w, x) ==
    /\ (w[1] = None \/ w[1][1] <= x.start)
    /\ (w[2] = None \/ x.end <= w[2][1])

\* C24: once add(interval) has been called the interval is stored, read or
\* not: when only adds have been called, a fetch yields, for every start and
\* end, at least as many intervals with them as there were add calls for
\* such an interval inside the fetched window - all k of k.
C24_AddStoresWhetherOrNotRead ==
    (pc = "fetched" /\ \A i \in 1..Len(writes) : writes[i].op = "add") =>
        \A se \in Spans :
            Cardinality({i \in 1..Len(writes) :
                            /\ writes[i].item.start = se[1]
                            /\ writes[i].item.end = se[2]
                            /\ WindowContains(query, writes[i].item)})
                <= Cardinality({j \in 1..Len(out) :
                                   out[j].start = se[1] /\ out[j].end = se[2]})

\* The stored intervals that match x: those with x's id when x carries one,
\* those equal to x otherwise.
Matching(static, x) ==
    {i \in 1..Len(static) :
        IF x.id # None THEN static[i].id = x.id ELSE static[i] = x}

\* C25: remove(x) removes exactly one stored interval matching x and leaves
\* every other in place, or leaves the stored intervals unchanged when none
\* matches; and the result it yields reports the removed event with
\* success, or success=False with an error when none matched.
C25_RemoveRemovesOneMatch ==
    /\ [][(Len(writes') = Len(writes) + 1 /\ writes'[Len(writes')].op = "remove") =>
             LET m == Matching(store.static, writes'[Len(writes')].item)
             IN  IF m = {} THEN store' = store
                 ELSE /\ store'.recurring = store.recurring
                      /\ \E i \in m : store'.static = Pop(store.static, i)]_vars
    /\ [][\A i \in 1..Len(writes) :
             (writes[i].op = "remove" /\ writes[i].pc = "created"
                  /\ writes'[i].pc = "done") =>
                 LET m == Matching(store.static, writes[i].item)
                     r == writes'[i].result[1]
                 IN  IF m = {}
                     THEN ~r.success /\ r.error # "none" /\ r.event = None
                     ELSE /\ r.success /\ r.error = "none"
                          /\ \E j \in m : r.event = <<store.static[j]>>]_vars

----------------------------------------------------------------------------
\* A MemoryTimeline the caller adds one RecurringPattern to, with or
\* without metadata, any number of times.

\* The patterns added: those of the shortest duration, at most an hour for
\* the weekly one and half a period for the others.
MemoryPatterns == {p \in Patterns : p.duration_seconds <= HalfPeriod(p.freq)}

InitMemoryPatterns == EmptyMemory /\ pattern \in MemoryPatterns

NextMemoryPatterns ==
    \/ MemoryAdd
    \/ \E i \in 1..Len(writes) : WriteRun(i)
    \/ MemoryFetch

SpecMemoryPatterns == InitMemoryPatterns /\ [][NextMemoryPatterns]_vars

\* The starts and ends of a list of intervals.
SpansOf(s) == [i \in 1..Len(s) |-> <<s[i].start, s[i].end>>]

\* C26: a pattern added to a MemoryTimeline, with or without metadata
\* keywords, keeps its recurrence parameters: once it has been added, and
\* nothing else, a fetch over any window yields occurrences with the starts
\* and ends the original pattern yields over that window.
C26_AddedPatternKeepsParameters ==
    (pc = "fetched" /\ Len(writes) = 1 /\ writes[1].pc = "done") =>
        SpansOf(out) = SpansOf(Expand(pattern, query[1], query[2]))

----------------------------------------------------------------------------
\* Further properties of Difference

\* C27: for a source and subtractors that are each ordered, overlapping
\* source intervals included, no fragment Difference yields contains a point
\* that a subtractor interval covers.
C27_NoFragmentHoldsSubtractedPoint ==
    (\A i \in 1..NumSources : IsSorted(streams[i])) =>
        \A o \in Range(out) : \A p \in o.start..o.end : p \notin Subtracted

----------------------------------------------------------------------------
\* Further properties of Intersection

\* C28: every pass of the sweep either ends the stream, a source whose
\* current interval ends at the minimum end having run out, or replaces the
\* current interval of at least one source whose end is the minimum end by
\* that source's next interval - the sweep never stops for want of an
\* advance; and it makes at most as many passes as the sources hold intervals
\* in total.
C28_EveryPassAdvancesOrEnds ==
    /\ [][(pc = "loop" /\ passes' = passes + 1) =>
             LET atMin == {i \in 1..NumSources : current[i].end = OverlapEnd(current)}
             IN  \/ /\ pc' = "done"
                    /\ \E i \in atMin : pos[i] = Len(streams[i])
                 \/ /\ pc' = "loop"
                    /\ \E i \in atMin : /\ pos'[i] = pos[i] + 1
                                        /\ current'[i] = streams[i][pos[i] + 1]]_vars
    /\ [](passes <= SumLen(streams, 1))

\* A finished sweep of two sources that took two passes, the first of which
\* advanced a source and the second of which found one run out.
C28_Witness ==
    /\ pc = "done"
    /\ NumSources = 2
    /\ passes = 2
    /\ Len(out) >= 2

----------------------------------------------------------------------------
\* Difference with a RecurringPattern as its subtractor (core.py:324-392,
\* recurrence.py:232-287): (source - pattern).fetch(0, end), consumed to the
\* end by its caller. With end = None the pattern's stream never ends;
\* streams[2] then holds its occurrences up to Horizon, which lies past every
\* source interval, and further occurrences follow for ever.

\* The source intervals lie in the first SourceDays days.
SourceDays == 2

\* A time past every source interval and at least one occurrence after them.
Horizon == (SourceDays + MaxInterval) * DAY

\* Source intervals from one half day to the end of a later one.
HalfDaySpans ==
    {<<a * HalfDay, b * HalfDay - 1>> :
        a \in 0..(2 * SourceDays - 1), b \in 1..(2 * SourceDays)}
        \cap {x \in Int \X Int : x[1] <= x[2]}

\* Daily patterns of half a day, at midnight or at noon.
DailyPatterns ==
    {[freq |-> "daily", interval |-> n, weekday |-> 0, start_seconds |-> ss,
      duration_seconds |-> HalfDay] : n \in 1..MaxInterval, ss \in {0, HalfDay}}

InitDifferencePattern ==
    /\ pattern \in DailyPatterns
    /\ query \in {<<Some(0), None>>, <<Some(0), Some(Horizon)>>}
    /\ \E n \in 0..2 : \E src \in [1..n -> HalfDaySpans] :
          /\ \A j \in 1..(n - 1) : SpanLeq(src[j], src[j + 1])
          /\ streams = <<[j \in 1..n |-> Ivl(src[j], 1, j)],
                         Expand(pattern, Some(0), Some(Horizon))>>
    /\ AnyMasks
    /\ pos = [i \in 1..Len(streams) |-> 0]
    /\ current = <<>>
    /\ cursor = None
    /\ out = <<>>
    /\ pc = "built"
    /\ raised = "none"
    /\ srcFetches = 0
    /\ passes = 0
    /\ stages = <<>>
    /\ kind = ""
    /\ built = <<>>
    /\ store = <<>>
    /\ writes = <<>>

\* The source has run out: one turn of `for _ in subtractor_iter: pass`. The
\* next item of the merged subtractors is taken and dropped; the loop, and
\* the generator, end when there is none. Of a stream that never ends only
\* the items up to Horizon are counted in pos: past them there is always
\* another item to take, and of those taken cursor keeps whether their number
\* is odd (1) or even (0).
DifferenceDrainNext ==
    /\ pc = "loop"
    /\ pos[1] = Len(streams[1])
    /\ IF Heads(Subtractors, pos) # {}
       THEN /\ pos' = [pos EXCEPT ![MergePick(Subtractors, pos)] = @ + 1]
            /\ pc' = pc
            /\ cursor' = cursor
       ELSE IF pattern # <<>> /\ query[2] = None
       THEN /\ pos' = pos
            /\ pc' = pc
            /\ cursor' = IF cursor = Some(1) THEN Some(0) ELSE Some(1)
       ELSE /\ pos' = pos
            /\ pc' = "done"
            /\ cursor' = cursor
    /\ UNCHANGED <<streams, masks, query, current, out, raised, srcFetches, passes>>
    /\ UNCHANGED <<stages, pattern, kind, built, store, writes>>

NextDifferencePattern ==
    DifferenceFetch \/ DifferenceStart \/ DifferenceEvent \/ DifferenceDrainNext

\* The caller that has received the last fragment asks for the next item
\* until the stream ends: the drain loop keeps running.
SpecDifferencePattern ==
    /\ InitDifferencePattern
    /\ [][NextDifferencePattern]_vars
    /\ WF_vars(DifferenceDrainNext)

\* C29: iterating a Difference over a finite source terminates: once the
\* last source interval has been processed the stream ends, also when the
\* subtractor's stream is unbounded.
C29_DifferenceTerminates ==
    (pc = "loop" /\ pos[1] = Len(streams[1])) ~> (pc = "done")

----------------------------------------------------------------------------
\* Validity of the intervals the combinators construct

\* C30: every interval constructed while an Intersection, a Difference or a
\* Complement is iterated has start <= end, for sources of valid intervals
\* and any bounds: the constructor's check never raises in any caller's
\* iterator, what the callers receive is valid, and a Complement fetched
\* with start > end yields nothing.
C30_ConstructedIntervalsValid ==
    kind \in {"Intersection", "Difference", "Complement"} =>
        /\ raised = "none"
        /\ \A j \in Callers :
              /\ pc[j] # "raised"
              /\ \A x \in Range(out[j]) : x.start <= x.end
              /\ (kind = "Complement" /\ query[1][1] > query[2][1]) => out[j] = <<>>

\* A Complement fetched with start > end over a source interval that
\* reaches across both bounds has been read to its end and has yielded
\* nothing.
C30_Witness ==
    /\ kind = "Complement"
    /\ query[1][1] > query[2][1]
    /\ pc[1] = "done"
    /\ out[1] = <<>>
    /\ Len(streams[1]) >= 1
    /\ streams[1][1].start <= query[2][1]
    /\ streams[1][1].end >= query[1][1]

====
